---- MODULE Spec2Model ----
(***************************************************************************)
(* Control loop of the SomaFM terminal player (src/main.go).               *)
(*                                                                         *)
(* The Bubble Tea runtime owns one event loop that feeds messages to       *)
(* model.Update one at a time.  Every tea.Cmd returned by Update or Init   *)
(* runs outside the loop; its result message is sent back on the loop's    *)
(* unbuffered channel.  tea.Sequence runs its commands one after another,  *)
(* sending each result before calling the next command.                    *)
(*                                                                         *)
(* A "task" below is one such running command (a one-element chain) or     *)
(* sequence.  Exec(i) is the task calling its next command (the side       *)
(* effect on the mpv processes happens here); Deliver(i) is the loop       *)
(* receiving the task's pending message and running Update on it.          *)
(***************************************************************************)
EXTENDS Integers, Sequences, FiniteSets, Bags, TLC

\* ---- bounds -------------------------------------------------------------
MaxChannels == 2    \* largest catalog the fetch returns
MaxCmds == 2        \* commands the key handlers return in one run

\* ---- playerState (src/main.go:38-40) ------------------------------------
stopped == 0
playing == 1

\* nil *Channel (selected) and nil *exec.Cmd (player)
nilChannel == -1
nilCmd == 0

\* error values carried by errMsg / playbackErrorMsg
NoErr == "nil"
CatalogError == "CatalogError"
ResolutionError == "ResolutionError"
PlaybackError == "PlaybackError"

VARIABLES
    channels,     \* m.channels: sequence of channel ids
    cursor,       \* m.cursor (0-based)
    selected,     \* m.selected: 0-based position in channels, or nilChannel
    err,          \* m.err
    loading,      \* m.loading
    playerState,  \* m.playerState
    player,       \* m.player: pid of the held *exec.Cmd, or nilCmd
    tasks,        \* bag of the commands and sequences in flight
    scheduled,    \* number of commands the key handlers have returned
    procs,        \* every mpv process spawned so far: [url, alive]
    terminated,   \* the event loop has received QuitMsg
    crashed,      \* Update panicked (index out of range)
    quitting,     \* history: a quit key has been handled
    last          \* history: the event Update handled last

model == <<channels, cursor, selected, err, loading, playerState, player>>
vars == <<channels, cursor, selected, err, loading, playerState, player,
          tasks, scheduled, procs, terminated, crashed, quitting, last>>

\* ---- messages (src/main.go:76-83, tea.KeyMsg, tea.QuitMsg) --------------
Msg(t, p, e, c) == [type |-> t, pid |-> p, e |-> e, chans |-> c]
NoMsg == Msg("none", nilCmd, NoErr, <<>>)
channelsMsg(c) == Msg("channelsMsg", nilCmd, NoErr, c)
errMsg(e) == Msg("errMsg", nilCmd, e, <<>>)
startPlaybackMsg(p) == Msg("startPlaybackMsg", p, NoErr, <<>>)
stopPlaybackMsg == Msg("stopPlaybackMsg", nilCmd, NoErr, <<>>)
playbackErrorMsg(e) == Msg("playbackErrorMsg", nilCmd, e, <<>>)
QuitMsg == Msg("QuitMsg", nilCmd, NoErr, <<>>)

\* ---- commands -----------------------------------------------------------
Cmd(k, h, u, e) == [kind |-> k, h |-> h, url |-> u, e |-> e]
fetchChannels == Cmd("fetch", nilCmd, nilChannel, NoErr)
startPlayback(url) == Cmd("start", nilCmd, url, NoErr)
stopPlayback(h) == Cmd("stop", h, nilChannel, NoErr)
Quit == Cmd("quit", nilCmd, nilChannel, NoErr)
errCmd(e) == Cmd("err", nilCmd, nilChannel, e)

\* A task: the commands of the chain, the index of the next command to
\* call, the message produced but not yet received by the loop, how many
\* of its messages the loop has received, and the branch that scheduled it.
Task(cs, o) == [cmds |-> cs, pc |-> 1, msg |-> NoMsg, delivered |-> 0,
                origin |-> o]

Catalogs == { [i \in 1..n |-> i] : n \in 0..MaxChannels }

Event(ev, o) == [ev |-> ev, origin |-> o]

Init ==
    /\ channels = <<>>
    /\ cursor = 0
    /\ selected = nilChannel
    /\ err = NoErr
    /\ loading = TRUE
    /\ playerState = stopped
    /\ player = nilCmd
    /\ tasks = SetToBag({Task(<<fetchChannels>>, "init")})
    /\ scheduled = 0
    /\ procs = <<>>
    /\ terminated = FALSE
    /\ crashed = FALSE
    /\ quitting = FALSE
    /\ last = Event("none", "none")

Running == ~terminated /\ ~crashed

\* ---- scheduling ---------------------------------------------------------
\* bound: the key handlers return at most MaxCmds commands
CanSchedule == scheduled < MaxCmds

Schedule(cs, o) ==
    /\ tasks' = tasks (+) SetToBag({Task(cs, o)})
    /\ scheduled' = scheduled + 1

\* ---- key handlers (model.Update, case tea.KeyMsg) -----------------------
\* mutant: the quit branch forgets the player
QuitCmds_NoStop(h) == <<Quit>>

\* "ctrl+c", "q": the command returned by the quit branch
QuitCmds(h) == IF h # nilCmd THEN <<stopPlayback(h), Quit>> ELSE <<Quit>>

KeyQuit ==
    /\ Running
    /\ CanSchedule
    /\ Schedule(QuitCmds(player), IF player # nilCmd THEN "quitStop" ELSE "quit")
    /\ quitting' = TRUE
    /\ last' = Event("quit", IF player # nilCmd THEN "quitStop" ELSE "quit")
    /\ UNCHANGED <<model, procs, terminated, crashed>>

\* "up", "k"
CursorUp(c) == IF c > 0 THEN c - 1 ELSE c

KeyUp ==
    /\ Running
    /\ cursor' = CursorUp(cursor)
    /\ last' = Event("up", "key")
    /\ UNCHANGED <<channels, selected, err, loading, playerState, player,
                   tasks, scheduled, procs, terminated, crashed, quitting>>

\* mutant: off-by-one bound in the "down" branch
CursorDown_OffByOne(c, n) == IF c < n THEN c + 1 ELSE c

\* "down", "j"
CursorDown(c, n) == IF c < n - 1 THEN c + 1 ELSE c

KeyDown ==
    /\ Running
    /\ cursor' = CursorDown(cursor, Len(channels))
    /\ last' = Event("down", "key")
    /\ UNCHANGED <<channels, selected, err, loading, playerState, player,
                   tasks, scheduled, procs, terminated, crashed, quitting>>

\* "enter", " ": &m.channels[m.cursor] panics when the index is out of range
IndexPanics == cursor < 0 \/ cursor >= Len(channels)

\* the toggle-off test of line 183 (pointer equality = same position)
IsToggleOff == playerState = playing /\ selected = cursor

\* the command list built by the switch path (lines 188-201)
SwitchCmds(h, url) ==
    IF h # nilCmd THEN <<stopPlayback(h), startPlayback(url)>>
                  ELSE <<startPlayback(url)>>

\* the command returned when getStreamURL fails (lines 195-199)
ResolveFailCmds(h, e) == <<errCmd(e)>>

ActivatePanic ==
    /\ Running
    /\ IndexPanics
    /\ crashed' = TRUE
    /\ last' = Event("activate", "panic")
    /\ UNCHANGED <<model, tasks, scheduled, procs, terminated, quitting>>

ActivateToggleOff ==
    /\ Running
    /\ ~IndexPanics
    /\ IsToggleOff
    /\ CanSchedule
    /\ selected' = nilChannel
    /\ Schedule(<<stopPlayback(player)>>, "toggle")
    /\ last' = Event("activate", "toggle")
    /\ UNCHANGED <<channels, cursor, err, loading, playerState, player,
                   procs, terminated, crashed, quitting>>

\* getStreamURL is called inside Update; ok is its outcome
ActivateSwitch ==
    /\ Running
    /\ ~IndexPanics
    /\ ~IsToggleOff
    /\ CanSchedule
    /\ selected' = cursor
    /\ \E ok \in BOOLEAN :
         IF ok
         THEN LET o == IF player # nilCmd THEN "switch" ELSE "play" IN
              /\ Schedule(SwitchCmds(player, channels[cursor + 1]), o)
              /\ last' = Event("activate", o)
         ELSE LET o == IF player # nilCmd THEN "switchErr" ELSE "playErr" IN
              /\ Schedule(ResolveFailCmds(player, ResolutionError), o)
              /\ last' = Event("activate", o)
    /\ UNCHANGED <<channels, cursor, err, loading, playerState, player,
                   procs, terminated, crashed, quitting>>

KeyActivate == ActivatePanic \/ ActivateToggleOff \/ ActivateSwitch

\* ---- commands running outside the loop ----------------------------------
\* mutant: the commands of a chain run without waiting (tea.Batch)
CanExec_NoWait(t) == t.pc <= Len(t.cmds)

\* tea.Sequence: the next command is called only after the previous
\* command's message has been received by the loop
CanExec(t) == t.pc <= Len(t.cmds) /\ t.msg = NoMsg

\* results a command can produce, with its effect on the mpv processes
FetchResult(m) ==
    /\ \/ m = errMsg(CatalogError)
       \/ \E c \in Catalogs : m = channelsMsg(c)
    /\ procs' = procs

\* startPlayback: cmd.Start() fails, or a new process exists
StartResult(c, m) ==
    \/ /\ m = playbackErrorMsg(PlaybackError)
       /\ procs' = procs
    \/ /\ procs' = Append(procs, [url |-> c.url, alive |-> TRUE])
       /\ m = startPlaybackMsg(Len(procs) + 1)

\* stopPlayback: nothing to kill, Kill() succeeds, or Kill() fails
StopResult(c, m) ==
    IF c.h = nilCmd
    THEN m = stopPlaybackMsg /\ procs' = procs
    ELSE \/ /\ procs' = [procs EXCEPT ![c.h].alive = FALSE]
            /\ m = stopPlaybackMsg
         \/ /\ procs' = procs
            /\ m = playbackErrorMsg(PlaybackError)

CmdResult(c, m) ==
    CASE c.kind = "fetch" -> FetchResult(m)
      [] c.kind = "start" -> StartResult(c, m)
      [] c.kind = "stop"  -> StopResult(c, m)
      [] c.kind = "quit"  -> m = QuitMsg /\ procs' = procs
      [] c.kind = "err"   -> m = errMsg(c.e) /\ procs' = procs

Msgs ==
    {errMsg(CatalogError), errMsg(ResolutionError), stopPlaybackMsg,
     playbackErrorMsg(PlaybackError), QuitMsg}
    \cup { channelsMsg(c) : c \in Catalogs }
    \cup { startPlaybackMsg(p) : p \in 1..MaxCmds }

Replace(t, new) == (tasks (-) SetToBag({t})) (+) new

Exec(t) ==
    /\ Running
    /\ CanExec(t)
    /\ \E m \in Msgs :
         /\ CmdResult(t.cmds[t.pc], m)
         /\ tasks' = Replace(t, SetToBag({[t EXCEPT !.pc = @ + 1, !.msg = m]}))
    /\ UNCHANGED <<model, scheduled, terminated, crashed, quitting, last>>

\* ---- completion handlers (model.Update, lines 205-225) ------------------
\* mutant: startPlaybackMsg sets the phase but not the handle
OnStartPlayback_DropHandle(m) ==
    /\ playerState' = playing
    /\ player' = player
    /\ UNCHANGED <<channels, cursor, selected, err, loading>>

OnStartPlayback(m) ==
    /\ playerState' = playing
    /\ player' = m.pid
    /\ UNCHANGED <<channels, cursor, selected, err, loading>>

\* mutant: stopPlaybackMsg leaves the phase alone
OnStopPlayback_KeepPlaying ==
    /\ playerState' = playerState
    /\ player' = nilCmd
    /\ UNCHANGED <<channels, cursor, selected, err, loading>>

OnStopPlayback ==
    /\ playerState' = stopped
    /\ player' = nilCmd
    /\ UNCHANGED <<channels, cursor, selected, err, loading>>

\* mutant: playbackErrorMsg keeps the handle
OnPlaybackError_KeepHandle(m) ==
    /\ err' = m.e
    /\ playerState' = stopped
    /\ player' = player
    /\ UNCHANGED <<channels, cursor, selected, loading>>

OnPlaybackError(m) ==
    /\ err' = m.e
    /\ playerState' = stopped
    /\ player' = nilCmd
    /\ UNCHANGED <<channels, cursor, selected, loading>>

\* mutant: channelsMsg installs the catalog without its last row
OnChannels_DropLast(m) ==
    /\ channels' = SubSeq(m.chans, 1, Len(m.chans) - 1)
    /\ loading' = FALSE
    /\ UNCHANGED <<cursor, selected, err, playerState, player>>

OnChannels(m) ==
    /\ channels' = m.chans
    /\ loading' = FALSE
    /\ UNCHANGED <<cursor, selected, err, playerState, player>>

OnErr(m) ==
    /\ err' = m.e
    /\ loading' = FALSE
    /\ UNCHANGED <<channels, cursor, selected, playerState, player>>

\* the loop's handling of one received message; QuitMsg ends the loop
\* without reaching Update
Update(m) ==
    CASE m.type = "startPlaybackMsg" -> OnStartPlayback(m) /\ terminated' = terminated
      [] m.type = "stopPlaybackMsg"  -> OnStopPlayback /\ terminated' = terminated
      [] m.type = "playbackErrorMsg" -> OnPlaybackError(m) /\ terminated' = terminated
      [] m.type = "channelsMsg"      -> OnChannels(m) /\ terminated' = terminated
      [] m.type = "errMsg"           -> OnErr(m) /\ terminated' = terminated
      [] m.type = "QuitMsg"          -> terminated' = TRUE /\ UNCHANGED model

\* the task after the loop took its message; a finished task disappears
\* mutant: the message stays pending after the loop took it
Taken_KeepMsg(t) == [t EXCEPT !.delivered = @ + 1]

Taken(t) == [t EXCEPT !.msg = NoMsg, !.delivered = @ + 1]

Deliver(t) ==
    /\ Running
    /\ t.msg # NoMsg
    /\ Update(t.msg)
    /\ tasks' = IF t.pc > Len(t.cmds)
                THEN Replace(t, EmptyBag)
                ELSE Replace(t, SetToBag({Taken(t)}))
    /\ last' = Event(t.msg.type, t.origin)
    /\ UNCHANGED <<scheduled, procs, crashed, quitting>>

Next ==
    \/ KeyQuit
    \/ KeyUp
    \/ KeyDown
    \/ KeyActivate
    \/ \E t \in BagToSet(tasks) : Exec(t)
    \/ \E t \in BagToSet(tasks) : Deliver(t)

Spec == Init /\ [][Next]_vars

\* ---- properties ---------------------------------------------------------
Max(a, b) == IF a > b THEN a ELSE b

AlivePlayers == { p \in 1..Len(procs) : procs[p].alive }

KeyEvents == {"up", "down", "activate", "quit"}

\* the step is Update handling a key that returned a command
KeyScheduled(ev) == last'.ev = ev /\ scheduled' = scheduled + 1

\* C1: at most one started and not yet killed player process exists at any
\* instant, for every interleaving of keys and completions.
AtMostOnePlayerAlive == Cardinality(AlivePlayers) <= 1

\* C2: the player handle is present iff the phase is Playing, in every
\* reachable state, the state right after PlaybackFailed included.
HandleIffPlaying == (player # nilCmd) <=> (playerState = playing)

\* a failed kill of a toggle-off has just been handled: the handle that was
\* held is gone and the phase is Stopped
HandleIffPlaying_Witness ==
    /\ last = Event("playbackErrorMsg", "toggle")
    /\ player = nilCmd
    /\ playerState = stopped
    /\ AlivePlayers # {}

\* C3: a present selection implies phase Playing.
SelectionImpliesPlaying == selected # nilChannel => playerState = playing

\* C4: 0 <= cursor <= max(N-1, 0) always; KeyUp at 0 and KeyDown at N-1
\* leave the cursor unchanged; with N = 0 both keys are no-ops.
CursorInRange == 0 <= cursor /\ cursor <= Max(Len(channels) - 1, 0)

CursorKeyStep ==
    /\ (last'.ev = "up" /\ cursor = 0) => cursor' = cursor
    /\ (last'.ev = "down" /\ cursor = Len(channels) - 1) => cursor' = cursor
    /\ (last'.ev \in {"up", "down"} /\ Len(channels) = 0) => UNCHANGED model

CursorClamped == []CursorInRange /\ [][CursorKeyStep]_vars

\* KeyDown was just handled on the last row of a loaded catalog
CursorClamped_Witness ==
    /\ last = Event("down", "key")
    /\ Len(channels) = MaxChannels
    /\ cursor = Len(channels) - 1

\* C5: a switch away from a playing channel schedules the stop of the held
\* handle strictly before the start of the new stream, and the start is not
\* dispatched until the stop's completion message has been produced and
\* taken by the loop.
IsSwitchChain(t) ==
    /\ Len(t.cmds) = 2
    /\ t.cmds[1].kind = "stop"
    /\ t.cmds[1].h \in 1..Len(procs)
    /\ t.cmds[2].kind = "start"
    /\ \E i \in 1..Len(channels) : t.cmds[2].url = channels[i]

ResolveFailureStops ==
    (last = Event("errMsg", "switchErr") /\ tasks = EmptyBag) =>
        /\ playerState = stopped
        /\ player = nilCmd
        /\ err = ResolutionError

\* C7: toggle-off clears the selection, schedules exactly one stop of the
\* held handle and no start, leaves channels and cursor alone, and the phase
\* is Stopped once that stop's completion has been handled.
ToggleOffStep ==
    (playerState = playing /\ selected = cursor /\ KeyScheduled("activate")) =>
        /\ selected' = nilChannel
        /\ tasks' = tasks (+) SetToBag({Task(<<stopPlayback(player)>>, "toggle")})
        /\ UNCHANGED <<channels, cursor>>

ToggleOffStopped ==
    (last.origin = "toggle" /\ last.ev # "activate") => playerState = stopped

ToggleOff == []ToggleOffStopped /\ [][ToggleOffStep]_vars

\* the stop of a toggle-off has completed and been handled
ToggleOff_Witness ==
    /\ last = Event("stopPlaybackMsg", "toggle")
    /\ selected = nilChannel
    /\ AlivePlayers = {}
    /\ Len(procs) > 0

\* C8: quit with a handle stops it before QuitMsg is produced; quit without
\* a handle returns tea.Quit alone.
QuitChains ==
    \A t \in BagToSet(tasks) :
        /\ t.origin = "quitStop" =>
              /\ Len(t.cmds) = 2
              /\ t.cmds[1].kind = "stop"
              /\ t.cmds[1].h \in 1..Len(procs)
              /\ t.cmds[2] = Quit
              /\ t.pc > 2 => t.delivered >= 1
        /\ t.origin = "quit" => t.cmds = <<Quit>>

QuitStep ==
    KeyScheduled("quit") =>
        tasks' = tasks (+) SetToBag({
            IF player # nilCmd
            THEN Task(<<stopPlayback(player), Quit>>, "quitStop")
            ELSE Task(<<Quit>>, "quit") })

QuitStopsFirst == []QuitChains /\ [][QuitStep]_vars

\* the loop has ended on the QuitMsg of a chain that first stopped the player
QuitStopsFirst_Witness ==
    /\ terminated
    /\ last = Event("QuitMsg", "quitStop")
    /\ tasks = EmptyBag

\* C9: once a quit key has been handled, no later key changes the state or
\* schedules a command.
NoInputAfterQuit ==
    [][(quitting /\ last'.ev \in KeyEvents) =>
           UNCHANGED <<model, scheduled, crashed>>]_vars

\* C10: with an empty catalog no key makes Update panic.
NoCrashOnEmptyCatalog == Len(channels) = 0 => ~crashed

\* C11: the phase is never Playing while the last error is a playback
\* error.
NeverPlayingWithPlaybackError ==
    ~(playerState = playing /\ err = PlaybackError)

\* C12: a playback completion that sets the phase to Stopped (stopPlaybackMsg
\* or playbackErrorMsg) also clears the handle and the selection.
StoppedClearsHandleAndSelection ==
    last.ev \in {"stopPlaybackMsg", "playbackErrorMsg"} =>
        /\ playerState = stopped
        /\ player = nilCmd
        /\ selected = nilChannel

\* C13: a recorded error is kept until a successful operation of its own
\* kind clears it or a newer error overwrites it.
SuccessClearsError ==
    /\ last.ev \in {"startPlaybackMsg", "stopPlaybackMsg"} => err # PlaybackError
    /\ last.ev = "channelsMsg" => err # CatalogError
    /\ (last.ev = "activate" /\ last.origin \in {"play", "switch"}) =>
           err # ResolutionError

ErrorRetainedStep ==
    (err # NoErr /\ err' # err) =>
        \/ err' # NoErr
        \/ last'.ev \in {"startPlaybackMsg", "stopPlaybackMsg", "channelsMsg",
                         "activate"}

LastErrorLifecycle == []SuccessClearsError /\ [][ErrorRetainedStep]_vars

\* ---- model.View (lines 230-279) ------------------------------------------
\* a frame: which branch rendered it, the error shown, the channel rows, the
\* row carrying the cursor marker and the channel named by "Now Playing"
Frame(k, e, rows, mark, banner) ==
    [kind |-> k, err |-> e, rows |-> rows, mark |-> mark, banner |-> banner]

\* mutant: View without its error branch
View_IgnoresErr ==
    IF loading THEN Frame("loading", NoErr, <<>>, nilChannel, nilChannel)
    ELSE Frame("list", NoErr, channels, cursor,
               IF playerState = playing /\ selected # nilChannel
               THEN channels[selected + 1] ELSE nilChannel)

View ==
    IF loading THEN Frame("loading", NoErr, <<>>, nilChannel, nilChannel)
    ELSE IF err # NoErr THEN Frame("error", err, <<>>, nilChannel, nilChannel)
    ELSE Frame("list", NoErr, channels, cursor,
               IF playerState = playing /\ selected # nilChannel
               THEN channels[selected + 1] ELSE nilChannel)

\* C14: CatalogFailed(e) from the initial state gives loading = false, an
\* empty sequence and last error = e, and the frame shows the error and no
\* channel list.
CatalogFailedShowsError ==
    last = Event("errMsg", "init") =>
        /\ ~loading
        /\ channels = <<>>
        /\ err = CatalogError
        /\ View.kind = "error"
        /\ View.err = CatalogError
        /\ View.rows = <<>>

\* the failed fetch has just been handled
CatalogFailedShowsError_Witness ==
    /\ last = Event("errMsg", "init")
    /\ err = CatalogError
    /\ tasks = EmptyBag
    /\ ~crashed

\* C15: with a loaded catalog, phase Stopped, no handle and nothing in
\* flight, a KeyActivate whose resolution succeeds schedules exactly one
\* start for the cursor channel's stream and no stop; when its
\* startPlaybackMsg is handled next, the phase is Playing, the handle of the
\* process started for that stream is stored and the selection is the
\* channel that was at the cursor.
PlayScheduleStep ==
    (/\ Len(channels) > 0
     /\ playerState = stopped
     /\ player = nilCmd
     /\ tasks = EmptyBag
     /\ KeyScheduled("activate")
     /\ last'.origin = "play") =>
        /\ tasks' = SetToBag({Task(<<startPlayback(channels[cursor + 1])>>, "play")})
        /\ selected' = cursor
        /\ UNCHANGED <<channels, cursor, playerState, player>>

PlayStartedStep ==
    (/\ last = Event("activate", "play")
     /\ last' = Event("startPlaybackMsg", "play")
     /\ BagCardinality(tasks) = 1) =>
        /\ playerState' = playing
        /\ player' \in 1..Len(procs)
        /\ \A t \in BagToSet(tasks) : player' = t.msg.pid
        /\ selected' = cursor
        /\ procs[player'].url = channels[selected' + 1]

CatalogLoadedNow == last' = Event("channelsMsg", "init") /\ last' # last

CatalogReplaceStep ==
    /\ CatalogLoadedNow =>
          \E t \in BagToSet(tasks) :
              /\ t.origin = "init"
              /\ t.msg.type = "channelsMsg"
              /\ channels' = t.msg.chans
              /\ ~loading'
              /\ View'.kind = "list" => View'.rows = t.msg.chans
              /\ View'.kind # "list" => View'.rows = <<>>
    /\ ~CatalogLoadedNow => (channels' = channels /\ (loading' => loading))

CatalogReplacedWhole == [][CatalogReplaceStep]_vars

\* the largest catalog has just been installed and is what the frame shows
CatalogReplacedWhole_Witness ==
    /\ last = Event("channelsMsg", "init")
    /\ Len(channels) = MaxChannels
    /\ ~loading
    /\ View.kind = "list"
    /\ View.rows = channels

\* ---- scheduling fairness --------------------------------------------------
\* the runtime runs every command it was handed and the loop keeps
\* receiving: a command that can be called is called, a pending message is
\* taken
ExecAny == \E t \in BagToSet(tasks) : Exec(t)
DeliverAny == \E t \in BagToSet(tasks) : Deliver(t)

FairSpec == Spec /\ WF_vars(ExecAny) /\ WF_vars(DeliverAny)

\* the message kinds each command can return
ResultTypes(c) ==
    CASE c.kind = "fetch" -> {"channelsMsg", "errMsg"}
      [] c.kind = "start" -> {"startPlaybackMsg", "playbackErrorMsg"}
      [] c.kind = "stop"  -> {"stopPlaybackMsg", "playbackErrorMsg"}
      [] c.kind = "quit"  -> {"QuitMsg"}
      [] c.kind = "err"   -> {"errMsg"}

Pending(t) == IF t.msg # NoMsg THEN 1 ELSE 0

\* C17: every scheduled effect delivers exactly one completion event, of
\* its own success or failure kind, and does so eventually while the loop
\* runs.
OneMessagePerCommand ==
    \A t \in BagToSet(tasks) :
        /\ t.delivered + Pending(t) = t.pc - 1
        /\ t.msg # NoMsg => t.msg.type \in ResultTypes(t.cmds[t.pc - 1])

EffectsReportOnce ==
    /\ []OneMessagePerCommand
    /\ (tasks # EmptyBag) ~> (tasks = EmptyBag \/ ~Running)

\* both completions of a stop-then-start chain have been handled
EffectsReportOnce_Witness ==
    /\ last = Event("startPlaybackMsg", "switch")
    /\ tasks = EmptyBag
    /\ scheduled = MaxCmds
    /\ Running

\* ---- runs in which Process.Kill() never fails ------------------------------
\* the step is stopPlayback returning playbackErrorMsg for a held handle
KillFailed(t) ==
    /\ t.cmds[t.pc].kind = "stop"
    /\ t.cmds[t.pc].h # nilCmd
    /\ tasks' = Replace(t, SetToBag({[t EXCEPT !.pc = @ + 1,
                                       !.msg = playbackErrorMsg(PlaybackError)]}))

ExecKillOK(t) == Exec(t) /\ ~KillFailed(t)

NextKillOK ==
    \/ KeyQuit
    \/ KeyUp
    \/ KeyDown
    \/ KeyActivate
    \/ \E t \in BagToSet(tasks) : ExecKillOK(t)
    \/ \E t \in BagToSet(tasks) : Deliver(t)

SpecKillOK == Init /\ [][NextKillOK]_vars

PlaybackMsgTypes == {"startPlaybackMsg", "stopPlaybackMsg", "playbackErrorMsg"}

\* no start or stop is waiting to run or waiting to be handled
NoPlaybackInFlight ==
    \A t \in BagToSet(tasks) :
        /\ \A i \in t.pc..Len(t.cmds) : t.cmds[i].kind \notin {"start", "stop"}
        /\ t.msg.type \notin PlaybackMsgTypes

\* C18: when kills succeed and no start or stop is in flight, the alive
\* player processes are exactly the held handle's process while Playing and
\* none while Stopped.
TrackedIsAlive ==
    NoPlaybackInFlight =>
        AlivePlayers = IF playerState = playing THEN {player} ELSE {}

\* C19: when kills succeed, no player process is alive once the program has
\* terminated after a quit key.
NoPlayerAfterQuit == terminated => AlivePlayers = {}

\* C20: whenever the frame carries the "Now Playing" banner, the channel it
\* names is the one whose stream the held handle's process was started for.
BannerMatchesHandle ==
    View.banner # nilChannel =>
        /\ player \in 1..Len(procs)
        /\ procs[player].url = View.banner

====
